---- MODULE Spec2Model ----
(***************************************************************************)
(* A model of src/fts/database.py: the write coordinator                   *)
(* (listen_and_write), the batch writer (write_to_db), the schema manager  *)
(* (add_table, table_exists), the type mapper                              *)
(* (pandas_dtype_to_sqlite_type) and the process-wide re-entrant lock.     *)
(*                                                                         *)
(* Every thread that is inside write_to_db / add_table advances one source *)
(* statement group at a time, so that interleavings between threads, the   *)
(* producers and the stop signal are all explored.                         *)
(***************************************************************************)
EXTENDS Integers, Sequences, FiniteSets, TLC

(***************************************************************************)
(* Bounds of the model.                                                    *)
(***************************************************************************)
\* how many items the producers put on the queue in one run
MaxEnqueue == 3
\* how many direct write_to_db / add_table calls the worker threads make
MaxCalls == 2
\* how many storage-engine faults (connect, execute, commit or close raising)
\* the environment injects
MaxFaults == 1

(***************************************************************************)
(* Values.                                                                 *)
(***************************************************************************)
\* Python's None used as an index name
None == "None"
\* SQL NULL
NULL == "NULL"
\* err[t] when no exception is in flight
NoError == "none"

\* the coordinator thread (runs listen_and_write)
Coordinator == "coordinator"
\* threads that call write_to_db / add_table themselves
Workers == {"t1", "t2"}
Threads == {Coordinator} \cup Workers

(***************************************************************************)
(* Record batches (the `data` of a WriteRequest).                          *)
(*   cls     "DataFrame": a plain pandas.DataFrame;                        *)
(*           "Frame": a DataFrame subclass that defines __bool__ as        *)
(*           `not self.empty` (the only kind of frame that gets past       *)
(*           `if not data`, see Truth)                                     *)
(*   multi   the index is a MultiIndex (only a MultiIndex has .dtypes)     *)
(*   names   data.index.names                                              *)
(*   columns data.columns                                                  *)
(*   dtypes  the dtype of each index level and column, in that order       *)
(*   rows    data.reset_index(drop=False).values, one tuple per row        *)
(*                                                                         *)
(*   dfEvents   one row keyed by path, a plain DataFrame                   *)
(*   frA, frB   the same shape and one shared key ("/a", 1)                *)
(*   frWide     one column more than frA                                   *)
(*   frEmpty    no rows                                                    *)
(*   frUnnamed  the default index: no key column declared                  *)
(***************************************************************************)
dfEvents ==
  [cls |-> "DataFrame", multi |-> FALSE, names |-> <<"path">>,
   columns |-> <<"op">>, dtypes |-> <<"object", "object">>,
   rows |-> << <<"/a", "create">> >>]

frA ==
  [cls |-> "Frame", multi |-> TRUE, names |-> <<"path", "ts">>,
   columns |-> <<"op">>, dtypes |-> <<"object", "int64", "object">>,
   rows |-> << <<"/a", "1", "create">>, <<"/b", "1", "create">> >>]

frB ==
  [cls |-> "Frame", multi |-> TRUE, names |-> <<"path", "ts">>,
   columns |-> <<"op">>, dtypes |-> <<"object", "int64", "object">>,
   rows |-> << <<"/a", "1", "delete">> >>]

frWide ==
  [cls |-> "Frame", multi |-> TRUE, names |-> <<"path", "ts">>,
   columns |-> <<"op", "size">>,
   dtypes |-> <<"object", "int64", "object", "float64">>,
   rows |-> << <<"/c", "2", "modify", "0.5">> >>]

frEmpty ==
  [cls |-> "Frame", multi |-> TRUE, names |-> <<"path", "ts">>,
   columns |-> <<"op">>, dtypes |-> <<"object", "int64", "object">>,
   rows |-> << >>]

frUnnamed ==
  [cls |-> "Frame", multi |-> FALSE, names |-> <<None>>,
   columns |-> <<"op">>, dtypes |-> <<"int64", "object">>,
   rows |-> << <<"0", "create">> >>]

\* what an item that is not a WriteRequest carries
NoData ==
  [cls |-> "none", multi |-> FALSE, names |-> << >>, columns |-> << >>,
   dtypes |-> << >>, rows |-> << >>]

\* WriteRequest(path, table_name, data); every request targets the one store
WriteRequest(table_name, data) ==
  [kind |-> "WriteRequest", table_name |-> table_name, data |-> data]

\* an object on the queue that is not a WriteRequest
Malformed == [kind |-> "other", table_name |-> "", data |-> NoData]

\* the items the producers may enqueue
Items ==
  { WriteRequest("events", dfEvents),
    WriteRequest("files", frA),
    WriteRequest("files", frB),
    WriteRequest("files", frWide),
    WriteRequest("files", frEmpty),
    WriteRequest("files", frUnnamed),
    Malformed }

\* the requests worker threads may pass to write_to_db / add_table directly
Calls == { r \in Items : r.kind = "WriteRequest" }

VARIABLES
  write_queue,   \* queue.Queue: sequence of [id, item]
  stop_signal,   \* threading.Event
  pc,            \* pc[t]: the statement thread t is at
  request,       \* request[t]: the [id, item] thread t is processing
  top,           \* top[t]: the function thread t entered first
  err,           \* err[t]: the exception propagating in thread t
  write_count,   \* listen_and_write's local write_count
  returned,      \* the value listen_and_write returned, -1 before it returns
  lockOwner,     \* _LOCK: owning thread, or "" when free
  lockCount,     \* _LOCK: recursion level
  tables,        \* the store: table name -> [cols, types, pk, rows]
  pending,       \* pending[t]: rows of the open transaction of thread t
  conns,         \* conns[t]: open sqlite3 connections of thread t
  enqueued,      \* history: every item put on the queue, in order
  preStop,       \* history: how many items were enqueued before stop was set
  trace,         \* history: write-order and error log
  calls,         \* history: direct calls the worker threads have made
  faults,        \* history: storage-engine faults the environment injected
  primary,       \* history: primary[t], the first exception of thread t's call
  closeLogged,   \* how many "failed to close" records the handlers logged
  before,        \* history: before[t], the store when t entered write_to_db
  stopAt,        \* history: was a write in progress, and how many items had
                 \* been dequeued, when stop was set
  mapped,        \* type mapper: the (dtype, column type) pairs computed so far
  cli            \* the command: its inputs, its position and its exit code

vars ==
  << write_queue, stop_signal, pc, request, top, err, write_count, returned,
     lockOwner, lockCount, tables, pending, conns, enqueued, preStop, trace,
     calls, faults, primary, closeLogged, before, stopAt, mapped, cli >>

(***************************************************************************)
(* Pure helpers.                                                           *)
(***************************************************************************)
Range(s) == { s[i] : i \in 1..Len(s) }

\* position of column c in the sequence cols (0 when absent)
IndexOf(cols, c) ==
  IF c \in Range(cols) THEN CHOOSE i \in 1..Len(cols) : cols[i] = c ELSE 0

\* bool(data), as `if not data` evaluates it: a pandas.DataFrame refuses to be
\* used as a truth value (ValueError, "The truth value of a DataFrame is
\* ambiguous"), whatever it holds; the Frame subclass answers `not self.empty`
Truth(data) ==
  IF data.cls = "DataFrame" THEN "raises"
  ELSE IF data.rows # << >> THEN "true" ELSE "false"

\* len(request.data): the number of rows of the batch
RowCount(data) == Len(data.rows)

\* data.index.name: the name of a one-level index, None for a MultiIndex
IndexName(data) == IF data.multi THEN None ELSE data.names[1]

\* `data.index.names is None`: names is always a list, never None
IndexNamesIsNone(data) == FALSE

\* the dtypes a column can have, and dtype.kind of each
Dtypes ==
  {"int64", "int32", "uint8", "bool", "float64", "float32", "object",
   "string", "datetime64[ns]", "timedelta64[ns]", "complex128"}

Kind(dtype) ==
  CASE dtype \in {"int64", "int32"} -> "i"
    [] dtype = "uint8" -> "u"
    [] dtype = "bool" -> "b"
    [] dtype \in {"float64", "float32"} -> "f"
    [] dtype = "datetime64[ns]" -> "M"
    [] dtype = "timedelta64[ns]" -> "m"
    [] dtype = "complex128" -> "c"
    [] OTHER -> "O"

\* a test no dtype passes
is_no_dtype(dtype) == FALSE

\* pandas.api.types.is_integer_dtype: signed and unsigned integers, neither
\* booleans nor dates nor durations
is_integer_dtype(dtype) == Kind(dtype) \in {"i", "u"}
\* pandas.api.types.is_bool_dtype
is_bool_dtype(dtype) == Kind(dtype) = "b"
\* pandas.api.types.is_float_dtype
is_float_dtype(dtype) == Kind(dtype) = "f"

pandas_dtype_to_sqlite_type(dtype) ==
  IF is_integer_dtype(dtype) THEN "INTEGER"
  ELSE IF is_bool_dtype(dtype) THEN "INTEGER"
  ELSE IF is_float_dtype(dtype) THEN "REAL"
  ELSE "TEXT"

\* the two guards at the top of add_table: the exception raised, or NoError
AddTableGuard(data) ==
  IF Truth(data) = "raises" THEN "ValueError: truth value is ambiguous"
  ELSE IF Truth(data) = "false" THEN "ValueError: no data"
  ELSE IF IndexName(data) = None /\ IndexNamesIsNone(data)
       THEN "ValueError: no named index"
  ELSE NoError

\* building column_definitions: data.index.dtypes exists on a MultiIndex
\* only, and joining the key names needs every name to be a string
ColumnDefinitionError(data) ==
  IF ~data.multi THEN "AttributeError"
  ELSE IF None \in Range(data.names) THEN "KeyError"
  ELSE NoError

\* list(data.index.names) + list(data.columns)
ColumnNames(data) == data.names \o data.columns

\* the table CREATE TABLE IF NOT EXISTS makes from a sample batch
SchemaOf(data) ==
  [cols  |-> ColumnNames(data),
   types |-> [i \in 1..Len(data.dtypes) |->
                pandas_dtype_to_sqlite_type(data.dtypes[i])],
   pk    |-> data.names,
   rows  |-> << >>]

\* table_exists: the catalog lookup
table_exists(store, table_name) == table_name \in DOMAIN store

\* the row the store builds from one value tuple: columns the statement does
\* not name are NULL
NewRow(table, column_names, values) ==
  [i \in 1..Len(table.cols) |->
     IF table.cols[i] \in Range(column_names)
     THEN values[IndexOf(column_names, table.cols[i])]
     ELSE NULL]

\* a stored row with the same (non-NULL) primary key
Conflicts(table, rows, r) ==
  \E i \in 1..Len(rows) :
    \A k \in Range(table.pk) :
      LET p == IndexOf(table.cols, k)
      IN  p # 0 /\ r[p] # NULL /\ rows[i][p] = r[p]

\* INSERT OR IGNORE of one row into the rows of a table
InsertOrIgnore(table, rows, r) ==
  IF Conflicts(table, rows, r) THEN rows ELSE Append(rows, r)

\* executemany: the rows of the table after every tuple has been submitted
RECURSIVE ExecuteMany(_, _, _, _)
ExecuteMany(table, rows, column_names, tuples) ==
  IF tuples = << >> THEN rows
  ELSE ExecuteMany(table,
                   InsertOrIgnore(table, rows,
                                  NewRow(table, column_names, Head(tuples))),
                   column_names, Tail(tuples))

\* what the INSERT statement raises, or NoError: the header needs string
\* names, the statement needs the table and each named column to exist
InsertError(store, table_name, data) ==
  IF None \in Range(ColumnNames(data)) THEN "TypeError"
  ELSE IF ~table_exists(store, table_name) THEN "OperationalError"
  ELSE IF ~(Range(ColumnNames(data)) \subseteq Range(store[table_name].cols))
       THEN "OperationalError"
  ELSE NoError

\* a handler for storage-engine errors only
CatchesStorageOnly(e) == e = "OperationalError"

\* `except Exception` in listen_and_write
Catches(e) == TRUE

\* a check that lets every object through
IsAnyObject(item) == TRUE

\* isinstance(request, WriteRequest)
IsWriteRequest(item) == item.kind = "WriteRequest"

(***************************************************************************)
(* The re-entrant lock.                                                    *)
(***************************************************************************)
\* a lock that excludes nobody
CanAcquireAlways(t) == TRUE

\* RLock.acquire does not block: the lock is free or the caller owns it
CanAcquire(t) == lockOwner = "" \/ lockOwner = t

Acquire(t) ==
  /\ CanAcquire(t)
  /\ lockOwner' = t
  /\ lockCount' = lockCount + 1

\* a release that an exception in flight skips
ReleaseUnlessRaised(t) ==
  IF err[t] = NoError
  THEN /\ lockCount' = lockCount - 1
       /\ lockOwner' = IF lockCount = 1 THEN "" ELSE lockOwner
  ELSE UNCHANGED << lockOwner, lockCount >>

\* the end of a `with _LOCK:` block, by return or by exception
Release(t) ==
  /\ lockCount' = lockCount - 1
  /\ lockOwner' = IF lockCount = 1 THEN "" ELSE lockOwner

(***************************************************************************)
(* State after construction: an empty store, an empty queue, the           *)
(* coordinator at the top of its loop, the workers idle.                   *)
(***************************************************************************)
NoRequest == [id |-> 0, item |-> Malformed]

\* thread t is inside write_to_db or add_table
InWrite(t) ==
  pc[t] \in {"w_lock", "a_check", "a_lock", "a_exists", "a_create", "a_close",
            "a_unlock", "w_exec", "w_commit", "w_close", "w_unlock"}

\* how many items write_queue.get has handed out so far
Dequeued == Len(enqueued) - Len(write_queue)

\* the command before it is invoked
NotStarted ==
  [pc |-> "off", argv |-> "", directory |-> "", output |-> "",
   interval |-> "", raised |-> NoError, exit |-> -1]

Init ==
  /\ write_queue = << >>
  /\ stop_signal = FALSE
  /\ pc = [t \in Threads |-> IF t = Coordinator THEN "loop" ELSE "idle"]
  /\ request = [t \in Threads |-> NoRequest]
  /\ top = [t \in Threads |-> ""]
  /\ err = [t \in Threads |-> NoError]
  /\ write_count = 0
  /\ returned = -1
  /\ lockOwner = ""
  /\ lockCount = 0
  /\ tables = << >>
  /\ pending = [t \in Threads |-> << >>]
  /\ conns = [t \in Threads |-> 0]
  /\ enqueued = << >>
  /\ preStop = 0
  /\ trace = << >>
  /\ calls = 0
  /\ faults = 0
  /\ primary = [t \in Threads |-> NoError]
  /\ closeLogged = 0
  /\ before = [t \in Threads |-> << >>]
  /\ stopAt = [inWrite |-> FALSE, dequeued |-> 0]
  /\ mapped = {}
  /\ cli = NotStarted

\* the log of the coordinator's run: what LOGGER records ("invalid", "failed")
\* and the write-order side channel of write_to_db ("start", then "end" when it
\* returns or "raise" when it raises), each with the request's identity and
\* the exception in flight
Log(t, ev) ==
  IF t = Coordinator
  THEN Append(trace, [ev |-> ev, id |-> request[t].id, err |-> err[t]])
  ELSE trace

TableName(t) == request[t].item.table_name
Data(t) == request[t].item.data

(***************************************************************************)
(* The environment of listen_and_write: producers and the controller.      *)
(***************************************************************************)
\* write_queue.put(item), while the run lasts
Enqueue(item) ==
  /\ Len(enqueued) < MaxEnqueue
  /\ returned = -1
  /\ write_queue' = Append(write_queue,
                           [id |-> Len(enqueued) + 1, item |-> item])
  /\ enqueued' = Append(enqueued, item)
  /\ preStop' = IF stop_signal THEN preStop ELSE preStop + 1
  /\ UNCHANGED << stop_signal, pc, request, top, err, write_count, returned,
                  lockOwner, lockCount, tables, pending, conns, trace, calls,
                  faults, primary, closeLogged, before, stopAt, mapped,
                  cli >>

\* stop_signal.set()
SetStop ==
  /\ ~stop_signal
  /\ stop_signal' = TRUE
  /\ stopAt' = [inWrite |-> InWrite(Coordinator), dequeued |-> Dequeued]
  /\ UNCHANGED << write_queue, pc, request, top, err, write_count, returned,
                  lockOwner, lockCount, tables, pending, conns, enqueued,
                  preStop, trace, calls, faults, primary, closeLogged,
                  before, mapped, cli >>

(***************************************************************************)
(* listen_and_write.                                                       *)
(***************************************************************************)
\* a loop that also ends when it finds the queue empty
LoopExitsOnEmpty == stop_signal \/ write_queue = << >>

\* the negation of the loop condition `not stop_signal.is_set()`
LoopExits == stop_signal

\* `while not stop_signal.is_set()` ... `return write_count`
Loop ==
  /\ pc[Coordinator] = "loop"
  /\ IF LoopExits
     THEN /\ pc' = [pc EXCEPT ![Coordinator] = "done"]
          /\ returned' = write_count
     ELSE /\ pc' = [pc EXCEPT ![Coordinator] = "get"]
          /\ UNCHANGED returned
  /\ UNCHANGED << write_queue, stop_signal, request, top, err, write_count,
                  lockOwner, lockCount, tables, pending, conns, enqueued,
                  preStop, trace, calls, faults, primary, closeLogged,
                  before, stopAt, mapped, cli >>

\* a LIFO queue: the newest item first
NextItemNewest(q) == q[Len(q)]

\* a get that leaves the item on the queue
RemainingAll(q) == q

\* the item write_queue.get hands out: the oldest one
NextItem(q) == Head(q)
\* the queue after that item was taken
Remaining(q) == Tail(q)

\* a get without timeout: it never gives up on an empty queue
NeverTimesOut(q) == FALSE

\* the timeout of write_queue.get expires: the queue stayed empty
TimesOut(q) == q = << >>

\* write_queue.get(block=True, timeout=...): the oldest item, or queue.Empty
\* after the timeout and back to the top of the loop
Get ==
  /\ pc[Coordinator] = "get"
  /\ IF write_queue # << >>
     THEN /\ request' = [request EXCEPT ![Coordinator] = NextItem(write_queue)]
          /\ write_queue' = Remaining(write_queue)
          /\ pc' = [pc EXCEPT ![Coordinator] = "isinstance"]
     ELSE /\ TimesOut(write_queue)
          /\ pc' = [pc EXCEPT ![Coordinator] = "loop"]
          /\ UNCHANGED << request, write_queue >>
  /\ UNCHANGED << stop_signal, top, err, write_count, returned, lockOwner,
                  lockCount, tables, pending, conns, enqueued, preStop,
                  trace, calls, faults, primary, closeLogged, before, stopAt,
                  mapped, cli >>

\* `if not isinstance(request, WriteRequest)`: log and continue; otherwise
\* enter the try block and call write_to_db
IsInstance ==
  /\ pc[Coordinator] = "isinstance"
  /\ primary' = [primary EXCEPT ![Coordinator] = NoError]
  /\ IF ~IsWriteRequest(request[Coordinator].item)
     THEN /\ trace' = Log(Coordinator, "invalid")
          /\ pc' = [pc EXCEPT ![Coordinator] = "loop"]
          /\ UNCHANGED << top, err >>
     ELSE /\ pc' = [pc EXCEPT ![Coordinator] = "w_lock"]
          /\ top' = [top EXCEPT ![Coordinator] = "write_to_db"]
          /\ err' = [err EXCEPT ![Coordinator] = NoError]
          /\ UNCHANGED trace
  /\ UNCHANGED << write_queue, stop_signal, request, write_count, returned,
                  lockOwner, lockCount, tables, pending, conns, enqueued,
                  preStop, calls, faults, closeLogged, before, stopAt,
                  mapped, cli >>

\* one per batch instead of one per row
CountedPerBatch(data) == 1

\* what `write_count += len(request.data)` adds
Counted(data) == RowCount(data)

\* write_to_db returned normally: write_count += len(request.data)
Count ==
  /\ pc[Coordinator] = "return"
  /\ err[Coordinator] = NoError
  /\ write_count' = write_count + Counted(Data(Coordinator))
  /\ pc' = [pc EXCEPT ![Coordinator] = "loop"]
  /\ UNCHANGED << write_queue, stop_signal, request, top, err, returned,
                  lockOwner, lockCount, tables, pending, conns, enqueued,
                  preStop, trace, calls, faults, primary, closeLogged,
                  before, stopAt, mapped, cli >>

\* write_to_db raised: `except Exception` logs it and the loop goes on; an
\* exception the handler does not catch leaves listen_and_write
Except ==
  /\ pc[Coordinator] = "return"
  /\ err[Coordinator] # NoError
  /\ IF Catches(err[Coordinator])
     THEN /\ trace' = Log(Coordinator, "failed")
          /\ err' = [err EXCEPT ![Coordinator] = NoError]
          /\ primary' = [primary EXCEPT ![Coordinator] = NoError]
          /\ pc' = [pc EXCEPT ![Coordinator] = "loop"]
     ELSE /\ pc' = [pc EXCEPT ![Coordinator] = "crashed"]
          /\ UNCHANGED << trace, err, primary >>
  /\ UNCHANGED << write_queue, stop_signal, request, top, write_count,
                  returned, lockOwner, lockCount, tables, pending, conns,
                  enqueued, preStop, calls, faults, closeLogged,
                  before, stopAt, mapped, cli >>

(***************************************************************************)
(* write_to_db and add_table, one statement group per step of thread t.    *)
(***************************************************************************)
\* write_to_db: `with _LOCK:` entered
WLock(t) ==
  /\ pc[t] = "w_lock"
  /\ Acquire(t)
  /\ trace' = Log(t, "start")
  /\ before' = [before EXCEPT ![t] = tables]
  /\ pc' = [pc EXCEPT ![t] = "a_check"]
  /\ UNCHANGED << write_queue, stop_signal, request, top, err, write_count,
                  returned, tables, pending, conns, enqueued, preStop, calls,
                  faults, primary, closeLogged, stopAt, mapped, cli >>

\* add_table: `if not data` and the named-index guard, before its lock
ACheck(t) ==
  /\ pc[t] = "a_check"
  /\ LET e == AddTableGuard(Data(t))
     IN  /\ err' = [err EXCEPT ![t] = e]
         /\ primary' = [primary EXCEPT ![t] = e]
         /\ pc' = [pc EXCEPT ![t] =
                     IF e = NoError THEN "a_lock"
                     ELSE IF top[t] = "write_to_db" THEN "w_unlock"
                     ELSE "return"]
  /\ UNCHANGED << write_queue, stop_signal, request, top, write_count,
                  returned, lockOwner, lockCount, tables, pending, conns,
                  enqueued, preStop, trace, calls, faults, closeLogged,
                  before, stopAt, mapped, cli >>

\* add_table: `with _LOCK:` entered (re-entered under write_to_db)
ALock(t) ==
  /\ pc[t] = "a_lock"
  /\ Acquire(t)
  /\ pc' = [pc EXCEPT ![t] = "a_exists"]
  /\ UNCHANGED << write_queue, stop_signal, request, top, err, write_count,
                  returned, tables, pending, conns, enqueued, preStop, trace,
                  calls, faults, primary, closeLogged, before, stopAt,
                  mapped, cli >>

\* add_table: connect, then `if table_exists(...): return`
AExists(t) ==
  /\ pc[t] = "a_exists"
  /\ conns' = [conns EXCEPT ![t] = @ + 1]
  /\ pc' = [pc EXCEPT ![t] =
              IF table_exists(tables, TableName(t)) THEN "a_close"
              ELSE "a_create"]
  /\ UNCHANGED << write_queue, stop_signal, request, top, err, write_count,
                  returned, lockOwner, lockCount, tables, pending, enqueued,
                  preStop, trace, calls, faults, primary, closeLogged,
                  before, stopAt, mapped, cli >>

\* CREATE TABLE IF NOT EXISTS, committed
CreateTable(store, table_name, data) ==
  IF table_exists(store, table_name) THEN store
  ELSE store @@ (table_name :> SchemaOf(data))

\* add_table: build the column definitions, execute the CREATE, commit
ACreate(t) ==
  /\ pc[t] = "a_create"
  /\ LET e == ColumnDefinitionError(Data(t))
     IN  /\ err' = [err EXCEPT ![t] = e]
         /\ primary' = [primary EXCEPT ![t] = e]
         /\ tables' = IF e = NoError
                      THEN CreateTable(tables, TableName(t), Data(t))
                      ELSE tables
  /\ pc' = [pc EXCEPT ![t] = "a_close"]
  /\ UNCHANGED << write_queue, stop_signal, request, top, write_count,
                  returned, lockOwner, lockCount, pending, conns, enqueued,
                  preStop, trace, calls, faults, closeLogged, before, stopAt,
                  mapped, cli >>

\* add_table: `finally: connection.close()`
AClose(t) ==
  /\ pc[t] = "a_close"
  /\ conns' = [conns EXCEPT ![t] = @ - 1]
  /\ pc' = [pc EXCEPT ![t] = "a_unlock"]
  /\ UNCHANGED << write_queue, stop_signal, request, top, err, write_count,
                  returned, lockOwner, lockCount, tables, pending, enqueued,
                  preStop, trace, calls, faults, primary, closeLogged,
                  before, stopAt, mapped, cli >>

\* add_table: its `with _LOCK:` left; back in the caller
AUnlock(t) ==
  /\ pc[t] = "a_unlock"
  /\ Release(t)
  /\ pc' = [pc EXCEPT ![t] =
              IF top[t] = "add_table" THEN "return"
              ELSE IF err[t] # NoError THEN "w_unlock"
              ELSE "w_exec"]
  /\ UNCHANGED << write_queue, stop_signal, request, top, err, write_count,
                  returned, tables, pending, conns, enqueued, preStop, trace,
                  calls, faults, primary, closeLogged, before, stopAt,
                  mapped, cli >>

\* write_to_db: build the INSERT OR IGNORE and the row tuples, connect,
\* executemany (inside the connection's open transaction)
WExec(t) ==
  /\ pc[t] = "w_exec"
  /\ LET e == InsertError(tables, TableName(t), Data(t))
     IN  /\ err' = [err EXCEPT ![t] = e]
         /\ primary' = [primary EXCEPT ![t] = e]
         /\ IF e = "TypeError"
            THEN /\ pc' = [pc EXCEPT ![t] = "w_unlock"]
                 /\ UNCHANGED << conns, pending >>
            ELSE IF e # NoError
            THEN /\ pc' = [pc EXCEPT ![t] = "w_close"]
                 /\ conns' = [conns EXCEPT ![t] = @ + 1]
                 /\ UNCHANGED pending
            ELSE /\ pc' = [pc EXCEPT ![t] = "w_commit"]
                 /\ conns' = [conns EXCEPT ![t] = @ + 1]
                 /\ pending' = [pending EXCEPT ![t] =
                      ExecuteMany(tables[TableName(t)],
                                  tables[TableName(t)].rows,
                                  ColumnNames(Data(t)), Data(t).rows)]
  /\ UNCHANGED << write_queue, stop_signal, request, top, write_count,
                  returned, lockOwner, lockCount, tables, enqueued, preStop,
                  trace, calls, faults, closeLogged, before, stopAt, mapped,
                  cli >>

\* write_to_db: connection.commit()
WCommit(t) ==
  /\ pc[t] = "w_commit"
  /\ tables' = [tables EXCEPT ![TableName(t)].rows = pending[t]]
  /\ pending' = [pending EXCEPT ![t] = << >>]
  /\ pc' = [pc EXCEPT ![t] = "w_close"]
  /\ UNCHANGED << write_queue, stop_signal, request, top, err, write_count,
                  returned, lockOwner, lockCount, conns, enqueued, preStop,
                  trace, calls, faults, primary, closeLogged, before, stopAt,
                  mapped, cli >>

\* a close that commits what the connection had staged
AfterCloseCommits(store, t) ==
  IF pending[t] # << >> /\ table_exists(store, TableName(t))
  THEN [store EXCEPT ![TableName(t)].rows = pending[t]]
  ELSE store

\* the store after connection.close(): what was not committed is gone
AfterClose(store, t) == store

\* write_to_db: `finally: connection.close()` (an uncommitted transaction is
\* rolled back)
WClose(t) ==
  /\ pc[t] = "w_close"
  /\ tables' = AfterClose(tables, t)
  /\ conns' = [conns EXCEPT ![t] = @ - 1]
  /\ pending' = [pending EXCEPT ![t] = << >>]
  /\ pc' = [pc EXCEPT ![t] = "w_unlock"]
  /\ UNCHANGED << write_queue, stop_signal, request, top, err, write_count,
                  returned, lockOwner, lockCount, enqueued, preStop,
                  trace, calls, faults, primary, closeLogged, before, stopAt,
                  mapped, cli >>

\* write_to_db: its `with _LOCK:` left, by return or by the exception
WUnlock(t) ==
  /\ pc[t] = "w_unlock"
  /\ Release(t)
  /\ trace' = Log(t, IF err[t] = NoError THEN "end" ELSE "raise")
  /\ pc' = [pc EXCEPT ![t] = "return"]
  /\ before' = [before EXCEPT ![t] = << >>]
  /\ UNCHANGED << write_queue, stop_signal, request, top, err, write_count,
                  returned, tables, pending, conns, enqueued, preStop, calls,
                  faults, primary, closeLogged, stopAt, mapped,
                  cli >>

Write(t) ==
  \/ WLock(t) \/ ACheck(t) \/ ALock(t) \/ AExists(t) \/ ACreate(t)
  \/ AClose(t) \/ AUnlock(t) \/ WExec(t) \/ WCommit(t) \/ WClose(t)
  \/ WUnlock(t)

(***************************************************************************)
(* Worker threads: direct callers of write_to_db and add_table.            *)
(***************************************************************************)
CallWrite(t, r) ==
  /\ pc[t] = "idle"
  /\ calls < MaxCalls
  /\ calls' = calls + 1
  /\ request' = [request EXCEPT ![t] = [id |-> 0, item |-> r]]
  /\ top' = [top EXCEPT ![t] = "write_to_db"]
  /\ err' = [err EXCEPT ![t] = NoError]
  /\ primary' = [primary EXCEPT ![t] = NoError]
  /\ pc' = [pc EXCEPT ![t] = "w_lock"]
  /\ UNCHANGED << write_queue, stop_signal, write_count, returned, lockOwner,
                  lockCount, tables, pending, conns, enqueued, preStop,
                  trace, faults, closeLogged, before, stopAt, mapped, cli >>

CallAddTable(t, r) ==
  /\ pc[t] = "idle"
  /\ calls < MaxCalls
  /\ calls' = calls + 1
  /\ request' = [request EXCEPT ![t] = [id |-> 0, item |-> r]]
  /\ top' = [top EXCEPT ![t] = "add_table"]
  /\ err' = [err EXCEPT ![t] = NoError]
  /\ primary' = [primary EXCEPT ![t] = NoError]
  /\ pc' = [pc EXCEPT ![t] = "a_check"]
  /\ UNCHANGED << write_queue, stop_signal, write_count, returned, lockOwner,
                  lockCount, tables, pending, conns, enqueued, preStop,
                  trace, faults, closeLogged, before, stopAt, mapped, cli >>

\* the call is over: the worker has its result or its exception
WorkerReturn(t) ==
  /\ pc[t] = "return"
  /\ pc' = [pc EXCEPT ![t] = "idle"]
  /\ UNCHANGED << write_queue, stop_signal, request, top, err, write_count,
                  returned, lockOwner, lockCount, tables, pending, conns,
                  enqueued, preStop, trace, calls, faults, primary,
                  closeLogged, before, stopAt, mapped, cli >>

(***************************************************************************)
(* Storage-engine faults: sqlite3 raising at connect, execute, commit or   *)
(* close, for reasons outside the request (I/O error, locked or unreadable *)
(* file).  The environment injects at most MaxFaults of them.              *)
(***************************************************************************)
\* what the `finally` of write_to_db raises when sqlite3.connect raised:
\* `if connection:` reads a local that was never bound
FinallyUnbound == "UnboundLocalError"

\* add_table: sqlite3.connect raises; connection is still None, the finally
\* has nothing to close
AConnectFail(t) ==
  /\ pc[t] = "a_exists"
  /\ faults < MaxFaults
  /\ faults' = faults + 1
  /\ err' = [err EXCEPT ![t] = "OperationalError"]
  /\ primary' = [primary EXCEPT ![t] = "OperationalError"]
  /\ pc' = [pc EXCEPT ![t] = "a_unlock"]
  /\ UNCHANGED << write_queue, stop_signal, request, top, write_count,
                  returned, lockOwner, lockCount, tables, pending, conns,
                  enqueued, preStop, trace, calls, closeLogged, before,
                  stopAt, mapped, cli >>

\* add_table: the CREATE or its commit raises; no table is made
ACreateFail(t) ==
  /\ pc[t] = "a_create"
  /\ ColumnDefinitionError(Data(t)) = NoError
  /\ faults < MaxFaults
  /\ faults' = faults + 1
  /\ err' = [err EXCEPT ![t] = "OperationalError"]
  /\ primary' = [primary EXCEPT ![t] = "OperationalError"]
  /\ pc' = [pc EXCEPT ![t] = "a_close"]
  /\ UNCHANGED << write_queue, stop_signal, request, top, write_count,
                  returned, lockOwner, lockCount, tables, pending, conns,
                  enqueued, preStop, trace, calls, closeLogged, before,
                  stopAt, mapped, cli >>

\* add_table: connection.close() raises; `except:` logs it and goes on with
\* the result or the exception the function already had
ACloseFail(t) ==
  /\ pc[t] = "a_close"
  /\ faults < MaxFaults
  /\ faults' = faults + 1
  /\ closeLogged' = closeLogged + 1
  /\ pc' = [pc EXCEPT ![t] = "a_unlock"]
  /\ UNCHANGED << write_queue, stop_signal, request, top, err, write_count,
                  returned, lockOwner, lockCount, tables, pending, conns,
                  enqueued, preStop, trace, calls, primary, before, stopAt,
                  mapped, cli >>

\* write_to_db: sqlite3.connect raises inside the try; the finally then
\* evaluates `if connection:` with connection unbound, and the exception
\* that raises is the one that leaves write_to_db
WConnectFail(t) ==
  /\ pc[t] = "w_exec"
  /\ InsertError(tables, TableName(t), Data(t)) # "TypeError"
  /\ faults < MaxFaults
  /\ faults' = faults + 1
  /\ primary' = [primary EXCEPT ![t] = "OperationalError"]
  /\ err' = [err EXCEPT ![t] = FinallyUnbound]
  /\ pc' = [pc EXCEPT ![t] = "w_unlock"]
  /\ UNCHANGED << write_queue, stop_signal, request, top, write_count,
                  returned, lockOwner, lockCount, tables, pending, conns,
                  enqueued, preStop, trace, calls, closeLogged, before,
                  stopAt, mapped, cli >>

\* write_to_db: executemany raises after k rows went into the connection's
\* open transaction
WExecFail(t, k) ==
  /\ pc[t] = "w_exec"
  /\ InsertError(tables, TableName(t), Data(t)) = NoError
  /\ k < Len(Data(t).rows)
  /\ faults < MaxFaults
  /\ faults' = faults + 1
  /\ err' = [err EXCEPT ![t] = "OperationalError"]
  /\ primary' = [primary EXCEPT ![t] = "OperationalError"]
  /\ conns' = [conns EXCEPT ![t] = @ + 1]
  /\ pending' = [pending EXCEPT ![t] =
       ExecuteMany(tables[TableName(t)], tables[TableName(t)].rows,
                   ColumnNames(Data(t)), SubSeq(Data(t).rows, 1, k))]
  /\ pc' = [pc EXCEPT ![t] = "w_close"]
  /\ UNCHANGED << write_queue, stop_signal, request, top, write_count,
                  returned, lockOwner, lockCount, tables, enqueued, preStop,
                  trace, calls, closeLogged, before, stopAt, mapped, cli >>

\* write_to_db: connection.commit() raises; nothing becomes durable
WCommitFail(t) ==
  /\ pc[t] = "w_commit"
  /\ faults < MaxFaults
  /\ faults' = faults + 1
  /\ err' = [err EXCEPT ![t] = "OperationalError"]
  /\ primary' = [primary EXCEPT ![t] = "OperationalError"]
  /\ pc' = [pc EXCEPT ![t] = "w_close"]
  /\ UNCHANGED << write_queue, stop_signal, request, top, write_count,
                  returned, lockOwner, lockCount, tables, pending, conns,
                  enqueued, preStop, trace, calls, closeLogged, before,
                  stopAt, mapped, cli >>

\* write_to_db: connection.close() raises; `except:` logs it and goes on
\* with the result or the exception the function already had
WCloseFail(t) ==
  /\ pc[t] = "w_close"
  /\ faults < MaxFaults
  /\ faults' = faults + 1
  /\ closeLogged' = closeLogged + 1
  /\ tables' = AfterClose(tables, t)
  /\ pending' = [pending EXCEPT ![t] = << >>]
  /\ pc' = [pc EXCEPT ![t] = "w_unlock"]
  /\ UNCHANGED << write_queue, stop_signal, request, top, err, write_count,
                  returned, lockOwner, lockCount, conns, enqueued, preStop,
                  trace, calls, primary, before, stopAt, mapped, cli >>

Fault(t) ==
  \/ AConnectFail(t) \/ ACreateFail(t) \/ ACloseFail(t) \/ WConnectFail(t)
  \/ (\E k \in 0..1 : WExecFail(t, k)) \/ WCommitFail(t) \/ WCloseFail(t)

(***************************************************************************)
(* Specifications.                                                         *)
(*   Spec        one run of listen_and_write on its dedicated thread, with *)
(*               producers and the controller around it                    *)
(*   WorkerSpec  several threads calling write_to_db / add_table directly  *)
(*   FaultSpec   WorkerSpec with storage-engine faults                     *)
(*   FaultRunSpec  a run of listen_and_write over well-formed batches,     *)
(*               with storage-engine faults                                *)
(***************************************************************************)
Next ==
  \/ \E item \in Items : Enqueue(item)
  \/ SetStop
  \/ Loop
  \/ Get
  \/ IsInstance
  \/ Write(Coordinator)
  \/ Count
  \/ Except

Spec == Init /\ [][Next]_vars

\* the steps of the thread that runs listen_and_write
Run ==
  \/ Loop
  \/ Get
  \/ IsInstance
  \/ Write(Coordinator)
  \/ Count
  \/ Except

\* a batch that is written and one whose write raises
StopItems == {WriteRequest("files", frA), WriteRequest("events", dfEvents)}

StopNext ==
  \/ \E item \in StopItems : Enqueue(item)
  \/ SetStop
  \/ Run

\* the thread of listen_and_write keeps being scheduled, every write
\* terminates and the get returns after its timeout
StopSpec == Init /\ [][StopNext]_vars /\ WF_vars(Run)

WorkerNext ==
  \/ \E t \in Workers, r \in Calls : CallWrite(t, r)
  \/ \E t \in Workers, r \in Calls : CallAddTable(t, r)
  \/ \E t \in Workers : Write(t)
  \/ \E t \in Workers : WorkerReturn(t)

WorkerSpec == Init /\ [][WorkerNext]_vars

FaultNext ==
  \/ WorkerNext
  \/ \E t \in Workers : Fault(t)

FaultSpec == Init /\ [][FaultNext]_vars

\* the requests of a run under faults: two batches of one shape that share
\* a key
FaultItems == { WriteRequest("files", frA), WriteRequest("files", frB) }

FaultRunNext ==
  \/ \E item \in FaultItems : Enqueue(item)
  \/ SetStop
  \/ Loop
  \/ Get
  \/ IsInstance
  \/ Write(Coordinator)
  \/ Count
  \/ Except
  \/ Fault(Coordinator)

FaultRunSpec == Init /\ [][FaultRunNext]_vars

(***************************************************************************)
(* The type mapper on its own: the results collected over the dtypes.      *)
(***************************************************************************)
MapType(dtype) ==
  /\ mapped' = mapped \cup {<< dtype, pandas_dtype_to_sqlite_type(dtype) >>}
  /\ UNCHANGED << write_queue, stop_signal, pc, request, top, err,
                  write_count, returned, lockOwner, lockCount, tables,
                  pending, conns, enqueued, preStop, trace, calls, faults,
                  primary, closeLogged, before, stopAt, cli >>

MapperNext == \E dtype \in Dtypes : MapType(dtype)

MapperSpec == Init /\ [][MapperNext]_vars

(***************************************************************************)
(* The command: sys.exit(main()), with main building Arguments() from the  *)
(* command line.  A path is "missing", a "file" or a "dir"; the command    *)
(* line is "complete", lacks a positional ("missing") or asks for help;    *)
(* the interval option is absent (""), a number or not a number.           *)
(***************************************************************************)
PathKinds == {"missing", "file", "dir"}
ArgvKinds == {"complete", "missing", "help"}
Intervals == {"", "0.5", "abc"}

\* the command is run
Start(argv, directory, output, interval) ==
  /\ cli.pc = "off"
  /\ cli' = [cli EXCEPT !.pc = "parse", !.argv = argv,
                        !.directory = directory, !.output = output,
                        !.interval = interval]
  /\ UNCHANGED << write_queue, stop_signal, pc, request, top, err,
                  write_count, returned, lockOwner, lockCount, tables,
                  pending, conns, enqueued, preStop, trace, calls, faults,
                  primary, closeLogged, before, stopAt, mapped >>

\* parser.parse_args(): SystemExit(0) after printing the help, SystemExit(2)
\* on a missing positional or an interval that is not a float
ParseError(argv, interval) ==
  IF argv = "help" THEN "SystemExit(0)"
  ELSE IF argv = "missing" \/ interval = "abc" THEN "SystemExit(2)"
  ELSE NoError

\* Arguments.__parse, with the default polling interval of __init__
Parse ==
  /\ cli.pc = "parse"
  /\ LET e == ParseError(cli.argv, cli.interval)
     IN  cli' = IF e # NoError
                THEN [cli EXCEPT !.pc = "exit", !.raised = e]
                ELSE [cli EXCEPT !.pc = "validate",
                                 !.interval = IF cli.interval = ""
                                              THEN "1.0" ELSE cli.interval]
  /\ UNCHANGED << write_queue, stop_signal, pc, request, top, err,
                  write_count, returned, lockOwner, lockCount, tables,
                  pending, conns, enqueued, preStop, trace, calls, faults,
                  primary, closeLogged, before, stopAt, mapped >>

\* arguments that are never checked
NoValidation(directory, output) == NoError

\* Arguments.__validate: the exception raised, or NoError
ValidationError(directory, output) ==
  IF directory # "dir" THEN "ValueError: not a valid directory"
  ELSE IF output = "dir" THEN "ValueError: must be a file"
  ELSE NoError

\* the end of Arguments.__init__, called by main before its try block
Validate ==
  /\ cli.pc = "validate"
  /\ LET e == ValidationError(cli.directory, cli.output)
     IN  cli' = IF e # NoError
                THEN [cli EXCEPT !.pc = "exit", !.raised = e]
                ELSE [cli EXCEPT !.pc = "try"]
  /\ UNCHANGED << write_queue, stop_signal, pc, request, top, err,
                  write_count, returned, lockOwner, lockCount, tables,
                  pending, conns, enqueued, preStop, trace, calls, faults,
                  primary, closeLogged, before, stopAt, mapped >>

\* the try block of main, whose body is `pass`, and `return 0`
TryBody ==
  /\ cli.pc = "try"
  /\ cli' = [cli EXCEPT !.pc = "exit"]
  /\ UNCHANGED << write_queue, stop_signal, pc, request, top, err,
                  write_count, returned, lockOwner, lockCount, tables,
                  pending, conns, enqueued, preStop, trace, calls, faults,
                  primary, closeLogged, before, stopAt, mapped >>

\* the status of the process: the value main returned, the code of a
\* SystemExit, 1 for any other exception that leaves main
ExitStatus(raised) ==
  CASE raised = NoError -> 0
    [] raised = "SystemExit(0)" -> 0
    [] raised = "SystemExit(2)" -> 2
    [] OTHER -> 1

\* sys.exit(main())
Exit ==
  /\ cli.pc = "exit"
  /\ cli' = [cli EXCEPT !.pc = "exited", !.exit = ExitStatus(cli.raised)]
  /\ UNCHANGED << write_queue, stop_signal, pc, request, top, err,
                  write_count, returned, lockOwner, lockCount, tables,
                  pending, conns, enqueued, preStop, trace, calls, faults,
                  primary, closeLogged, before, stopAt, mapped >>

MainNext ==
  \/ \E argv \in ArgvKinds, directory \in PathKinds, output \in PathKinds,
        interval \in Intervals : Start(argv, directory, output, interval)
  \/ Parse
  \/ Validate
  \/ TryBody
  \/ Exit

MainSpec == Init /\ [][MainNext]_vars

(***************************************************************************)
(* Vocabulary of the properties.                                           *)
(***************************************************************************)
Done == pc[Coordinator] = "done"

\* the log holds event ev of the request with identity id
Logged(ev, id) ==
  \E p \in 1..Len(trace) : trace[p].ev = ev /\ trace[p].id = id

\* request id was handed to write_to_db
Handed(id) == Logged("start", id)

\* the write of request id is over, by return or by exception
Processed(id) == Logged("end", id) \/ Logged("raise", id)

\* an object on the queue that is not a WriteRequest
IsMalformedItem(item) == item.kind # "WriteRequest"

\* a batch the spec calls well-formed: it has rows and every key column is
\* named
ValidBatch(data) == data.rows # << >> /\ None \notin Range(data.names)

\* the batch names no column that an existing table of that name lacks
Compatible(store, table_name, data) ==
  table_exists(store, table_name) =>
    Range(ColumnNames(data)) \subseteq Range(store[table_name].cols)

\* how many stored rows of the table carry the key of the value tuple
Copies(store, table_name, data, values) ==
  IF ~table_exists(store, table_name) THEN 0
  ELSE LET table == store[table_name]
           r == NewRow(table, ColumnNames(data), values)
       IN  Cardinality({ i \in 1..Len(table.rows) :
             \A k \in Range(data.names) :
               LET p == IndexOf(table.cols, k)
               IN  p # 0 /\ table.rows[i][p] = r[p] })

\* every row of the batch is stored exactly once
StoredOnce(store, table_name, data) ==
  \A i \in 1..Len(data.rows) :
    Copies(store, table_name, data, data.rows[i]) = 1

RECURSIVE SumRows(_)
\* the sum of the row counts of the requests whose write returned normally
SumRows(log) ==
  IF log = << >> THEN 0
  ELSE (IF Head(log).ev = "end"
        THEN RowCount(enqueued[Head(log).id].data) ELSE 0)
       + SumRows(Tail(log))

(***************************************************************************)
(* C1. No enqueued event is lost under normal shutdown: when               *)
(* listen_and_write has returned, every WriteRequest that was put on the   *)
(* queue before the stop signal was set has been dequeued and handed to    *)
(* write_to_db.                                                            *)
(***************************************************************************)
C1_NoLostEvents ==
  Done =>
    \A i \in 1..preStop : ~IsMalformedItem(enqueued[i]) => Handed(i)

(***************************************************************************)
(* C2. Fault isolation: a failed write never ends the run, and a           *)
(* well-formed batch dequeued after a batch whose write raised is, once    *)
(* processed, in the store and added to the running count.                 *)
(***************************************************************************)
C2_FaultIsolation ==
  /\ pc[Coordinator] # "crashed"
  /\ \A i, j \in 1..Len(enqueued) :
       ( /\ i < j
         /\ Logged("raise", i)
         /\ Processed(j)
         /\ ~IsMalformedItem(enqueued[j])
         /\ ValidBatch(enqueued[j].data)
         /\ Compatible(tables, enqueued[j].table_name, enqueued[j].data) )
       => /\ Logged("end", j)
          /\ StoredOnce(tables, enqueued[j].table_name, enqueued[j].data)

C4_FifoOrder ==
  \A p, q \in 1..Len(trace) :
    (p < q /\ trace[p].ev = "start" /\ trace[q].ev = "start")
    => /\ trace[p].id < trace[q].id
       /\ \E r \in (p + 1)..(q - 1) :
            /\ trace[r].ev \in {"end", "failed"}
            /\ trace[r].id = trace[p].id

\* three requests were written one after the other, one of them committed
\* and one of them failed
C4_Witness ==
  /\ Processed(1) /\ Processed(2) /\ Processed(3)
  /\ \E i \in 1..3 : Logged("end", i)
  /\ \E i \in 1..3 : Logged("failed", i)

(***************************************************************************)
(* C5. No write interleaving: at most one thread at a time is between      *)
(* entering the lock and leaving it (the table-existence check, the        *)
(* CREATE, the INSERT and its commit all lie in between), that thread owns *)
(* the lock, at most one connection to the store is open, and two threads  *)
(* are never both about to create a table.                                 *)
(***************************************************************************)
\* thread t is inside a `with _LOCK:` block
InLock(t) ==
  \/ /\ top[t] = "write_to_db"
     /\ pc[t] \in {"a_check", "a_lock", "a_exists", "a_create", "a_close",
                   "a_unlock", "w_exec", "w_commit", "w_close", "w_unlock"}
  \/ /\ top[t] = "add_table"
     /\ pc[t] \in {"a_exists", "a_create", "a_close", "a_unlock"}

C5_NoInterleaving ==
  /\ Cardinality({ t \in Threads : InLock(t) }) <= 1
  /\ \A t \in Threads : InLock(t) => lockOwner = t
  /\ Cardinality({ t \in Threads : conns[t] > 0 }) <= 1
  /\ Cardinality({ t \in Threads : pc[t] = "a_create" }) <= 1

\* one thread has checked for the table, inserted and is about to commit,
\* while the other one waits for the lock with a write to the same table
C5_Witness ==
  /\ pc["t1"] = "w_commit"
  /\ pc["t2"] \in {"w_lock", "a_lock"}
  /\ TableName("t1") = TableName("t2")

(***************************************************************************)
(* C6. Idempotent table creation: once an add_table call with a non-empty  *)
(* keyed sample batch has returned, the table of that name exists (the     *)
(* first such call created it, every later one found it and did nothing).  *)
(***************************************************************************)
C6_AddTableCreates ==
  \A t \in Workers :
    (pc[t] = "return" /\ top[t] = "add_table" /\ ValidBatch(Data(t)))
    => table_exists(tables, TableName(t))

(***************************************************************************)
(* C7. Idempotent row insertion: once a write_to_db call with a non-empty  *)
(* keyed batch (of the table's shape) has returned, the store holds        *)
(* exactly one copy of each row of the batch, however often the batch or   *)
(* its keys were written before.                                           *)
(***************************************************************************)
C7_OneCopyPerRow ==
  \A t \in Workers :
    ( /\ pc[t] = "return"
      /\ top[t] = "write_to_db"
      /\ ValidBatch(Data(t))
      /\ Compatible(tables, TableName(t), Data(t)) )
    => StoredOnce(tables, TableName(t), Data(t))

(***************************************************************************)
(* C8. The end-to-end scenario: from an empty store, one request for table *)
(* events with the one row ("/a", "create") keyed by path is enqueued and  *)
(* dequeued, then the run is stopped: the store holds table events with    *)
(* exactly that row and the run returns 1.                                 *)
(***************************************************************************)
C8_Scenario ==
  (Done /\ enqueued = << WriteRequest("events", dfEvents) >> /\ Handed(1))
  => /\ returned = 1
     /\ table_exists(tables, "events")
     /\ tables["events"].rows = << <<"/a", "create">> >>

(***************************************************************************)
(* C9. Error containment: no error leaves listen_and_write, whatever the   *)
(* queue held; the run ends only by returning the accumulated count, and   *)
(* only after the stop signal was set.                                     *)
(***************************************************************************)
C9_ErrorContainment ==
  /\ pc[Coordinator] # "crashed"
  /\ returned # -1 => (Done /\ stop_signal /\ returned = write_count)
  /\ Done => returned # -1

\* a run that returned after the store rejected a batch and after a
\* malformed item
C9_Witness ==
  /\ Done
  /\ \E p \in 1..Len(trace) :
       trace[p].ev = "failed" /\ trace[p].err = "OperationalError"
  /\ \E p \in 1..Len(trace) : trace[p].ev = "invalid"

(***************************************************************************)
(* C10. A dequeued item that is not a WriteRequest is logged and           *)
(* discarded: the step that handles it leaves the store, the connections,  *)
(* the lock and the running count as they are, appends one log record and  *)
(* goes back to the top of the loop.                                       *)
(***************************************************************************)
C10_MalformedDiscarded ==
  [][ ( /\ pc[Coordinator] = "isinstance"
        /\ pc'[Coordinator] # "isinstance"
        /\ IsMalformedItem(request[Coordinator].item) )
      => /\ pc'[Coordinator] = "loop"
         /\ tables' = tables
         /\ conns' = conns
         /\ pending' = pending
         /\ lockOwner' = lockOwner
         /\ lockCount' = lockCount
         /\ write_count' = write_count
         /\ trace' = Append(trace, [ev |-> "invalid",
                                    id |-> request[Coordinator].id,
                                    err |-> NoError]) ]_vars

\* a malformed item was discarded and the loop went on to write a request
C10_Witness ==
  \E p, q \in 1..Len(trace) :
    p < q /\ trace[p].ev = "invalid" /\ trace[q].ev = "start"

(***************************************************************************)
(* C11. add_table called with a non-empty sample batch that declares no    *)
(* key column (an unnamed index) fails with the unkeyed-schema error       *)
(* (the ValueError of the named-index guard) and creates no table.         *)
(***************************************************************************)
\* the sample has rows and an index level without a name
Unkeyed(data) == data.rows # << >> /\ None \in Range(data.names)

C11_UnkeyedRejected ==
  \A t \in Workers :
    (pc[t] = "return" /\ top[t] = "add_table" /\ Unkeyed(Data(t)))
    => /\ err[t] = "ValueError: no named index"
       /\ table_exists(tables, TableName(t))
            => tables[TableName(t)].pk # Data(t).names

(***************************************************************************)
(* C12. add_table fails with the empty-schema error (the ValueError of its *)
(* `if not data` test) exactly when the sample batch has zero rows: an     *)
(* empty sample raises it, a non-empty keyed sample does not.              *)
(***************************************************************************)
\* the ValueError that add_table's emptiness test lets out
EmptySchemaError(e) ==
  e \in {"ValueError: no data", "ValueError: truth value is ambiguous"}

C12_EmptyExactly ==
  \A t \in Workers :
    (pc[t] = "return" /\ top[t] = "add_table")
    => /\ Data(t).rows = << >> => EmptySchemaError(err[t])
       /\ ValidBatch(Data(t)) => ~EmptySchemaError(err[t])

(***************************************************************************)
(* C13. When the storage engine raises during write_to_db (at connect, at  *)
(* executemany or at commit), the caller receives that storage-engine      *)
(* error, after the connection was released; a failure to release it is    *)
(* only logged and replaces neither the error nor the result.              *)
(***************************************************************************)
C13_StorageErrorDelivered ==
  \A t \in Workers :
    (pc[t] = "return" /\ top[t] = "write_to_db")
    => /\ err[t] = primary[t]
       /\ conns[t] = 0 \/ closeLogged > 0

Times(ev, id) ==
  Cardinality({ p \in 1..Len(trace) : trace[p].ev = ev /\ trace[p].id = id })

(***************************************************************************)
(* C15. No WriteRequest is passed to write_to_db more than once: a request *)
(* that was dequeued is never on the queue again, whether its write        *)
(* succeeded or failed, and write_to_db starts at most once for it.        *)
(***************************************************************************)
C15_AtMostOnce ==
  /\ \A id \in 1..Len(enqueued) : Times("start", id) <= 1
  /\ \A p \in 1..Len(write_queue) :
       /\ ~Handed(write_queue[p].id)
       /\ write_queue[p].id # request[Coordinator].id
  /\ \A p, q \in 1..Len(write_queue) :
       write_queue[p].id = write_queue[q].id => p = q

\* a write failed and was logged, and the run went on to a later request
C15_Witness ==
  /\ Logged("failed", 1)
  /\ Processed(2)
  /\ Times("start", 1) = 1

\* the storage type the contract gives a column type
ExpectedType(dtype) ==
  CASE dtype \in {"int64", "int32", "uint8"} -> "INTEGER"
    [] dtype = "bool" -> "INTEGER"
    [] dtype \in {"float64", "float32"} -> "REAL"
    [] OTHER -> "TEXT"

(***************************************************************************)
(* C16. pandas_dtype_to_sqlite_type is total and has no error outcome:     *)
(* integer maps to INTEGER, boolean to INTEGER, floating-point to REAL and *)
(* every other type (string, generic object, date) to TEXT.                *)
(***************************************************************************)
C16_TypeMapping ==
  \A m \in mapped :
    /\ m[2] \in {"INTEGER", "REAL", "TEXT"}
    /\ m[2] = ExpectedType(m[1])

\* one type of each class has been mapped
C16_Witness ==
  {<< "int64", "INTEGER" >>, << "bool", "INTEGER" >>, << "float64", "REAL" >>,
   << "string", "TEXT" >>, << "object", "TEXT" >>,
   << "datetime64[ns]", "TEXT" >>} \subseteq mapped

\* the command line was accepted by the parser
Parsed == cli.argv = "complete" /\ cli.interval # "abc"

\* setup fails: the watched directory is not an existing directory, or the
\* output path is a directory
SetupFails == cli.directory # "dir" \/ cli.output = "dir"

DequeuedSinceStop == Dequeued - stopAt.dequeued

(***************************************************************************)
(* C18. Once the stop signal is set, listen_and_write eventually returns,  *)
(* and it dequeues at most one further item after the signal was set,      *)
(* however many items remain queued.                                       *)
(***************************************************************************)
C18_StopTerminates ==
  /\ stop_signal ~> Done
  /\ [](stop_signal => DequeuedSinceStop <= 1)

\* the run returned after one more dequeue, leaving two items on the queue
C18_Witness ==
  /\ Done
  /\ DequeuedSinceStop = 1
  /\ Len(write_queue) >= 2

\* the coordinator's write_to_db call is over but for the release of the
\* lock, and it ends by an exception
FailedWrite == pc[Coordinator] = "w_unlock" /\ err[Coordinator] # NoError

\* the last thing logged is the failure of a write
FailureLogged == trace # << >> /\ trace[Len(trace)].ev = "failed"

(***************************************************************************)
(* C19. A batch whose insert fails is all-or-nothing for rows: after the   *)
(* failed write_to_db every table that existed before it is as it was, no  *)
(* row of the batch is stored, and the running count is that of the        *)
(* writes that returned normally; the only durable effect is the table     *)
(* that add_table created, which is empty.                                 *)
(***************************************************************************)
C19_AllOrNothing ==
  /\ FailedWrite
     => /\ \A n \in DOMAIN before[Coordinator] :
             table_exists(tables, n) /\ tables[n] = before[Coordinator][n]
        /\ \A n \in DOMAIN tables \ DOMAIN before[Coordinator] :
             n = TableName(Coordinator) /\ tables[n].rows = << >>
        /\ pending[Coordinator] = << >>
  /\ (FailedWrite \/ FailureLogged) => write_count = SumRows(trace)

\* the storage engine failed the insert into a table the call had created
C19_Witness ==
  /\ FailedWrite
  /\ primary[Coordinator] = "OperationalError"
  /\ ~table_exists(before[Coordinator], TableName(Coordinator))
  /\ table_exists(tables, TableName(Coordinator))
  /\ faults > 0

\* how many `with _LOCK:` blocks thread t is inside
Depth(t) ==
  IF ~InLock(t) THEN 0
  ELSE IF top[t] = "write_to_db"
          /\ pc[t] \in {"a_exists", "a_create", "a_close", "a_unlock"}
       THEN 2
  ELSE 1

(***************************************************************************)
(* C20. The process-wide lock is re-entrant and always released: add_table *)
(* re-acquires it under write_to_db without blocking, a thread's hold      *)
(* count is the number of `with _LOCK:` blocks it is inside, and a thread  *)
(* that left write_to_db or add_table, by return or by exception, holds    *)
(* nothing, so the lock is free for any thread when no call is inside.     *)
(***************************************************************************)
C20_LockReleased ==
  /\ \A t \in Workers :
       /\ Depth(t) > 0 => lockOwner = t /\ lockCount = Depth(t)
       /\ pc[t] \in {"idle", "return"} => lockOwner # t
       /\ (pc[t] = "a_lock" /\ top[t] = "write_to_db")
          => lockOwner = t /\ ENABLED ALock(t)
  /\ (\A t \in Workers : Depth(t) = 0) => lockOwner = "" /\ lockCount = 0
  /\ (\A t \in Workers : Depth(t) = 0)
     => \A t \in Workers : pc[t] = "w_lock" => ENABLED WLock(t)

\* a write of t1 ended by an exception, and t2 then got the lock twice over
C20_Witness ==
  /\ pc["t1"] = "return"
  /\ err["t1"] # NoError
  /\ faults > 0
  /\ Depth("t2") = 2
  /\ lockCount = 2

====
